---------------------------- MODULE Spec2Model ----------------------------
(***************************************************************************)
(* A model of src/main.py: the /detect handler of the colour-detection     *)
(* print-pricing server.  Strings are sequences of one-character strings,  *)
(* percentages are integers in hundredths (50.01 is 5001), JSON values are *)
(* tagged records, and the request's temp directory is the set of the names *)
(* that exist in it.                                                        *)
(***************************************************************************)
EXTENDS Integers, Sequences, FiniteSets, TLC

VARIABLES pc, reply, prices, fetches, handled, accepted, cur, response_data,
          fs, dir_exists, response,
          img_in, pct_out,
          p_in, table_in, price_out

vars == <<pc, reply, prices, fetches, handled, accepted, cur, response_data,
          fs, dir_exists, response, img_in, pct_out, p_in, table_in, price_out>>

batchVars == <<pc, reply, prices, fetches, handled, accepted, cur,
               response_data, fs, dir_exists, response>>
analyzeVars == <<img_in, pct_out>>
priceVars == <<p_in, table_in, price_out>>

(* Bounds of the model. *)
MaxFiles == 2
MaxPixels == 3

(***************************************************************************)
(* Strings                                                                  *)
(***************************************************************************)
UpperChars == <<"A","B","C","D","E","F","G","H","I","J","K","L","M",
                "N","O","P","Q","R","S","T","U","V","W","X","Y","Z">>
LowerChars == <<"a","b","c","d","e","f","g","h","i","j","k","l","m",
                "n","o","p","q","r","s","t","u","v","w","x","y","z">>
Digits == {"0","1","2","3","4","5","6","7","8","9"}

Range(s) == {s[i] : i \in 1..Len(s)}

\* str.lower() on one character
LowerChar(c) ==
  IF c \in Range(UpperChars)
    THEN LowerChars[CHOOSE i \in 1..26 : UpperChars[i] = c]
    ELSE c

lower(s) == [i \in 1..Len(s) |-> LowerChar(s[i])]

\* '.' in filename
HasDot(s) == \E i \in 1..Len(s) : s[i] = "."

LastDot(s) == CHOOSE i \in 1..Len(s) : s[i] = "." /\ \A j \in (i+1)..Len(s) : s[j] # "."

\* filename.rsplit('.', 1)[1]; the caller guards with HasDot (no dot: IndexError)
rsplit1(s) == SubSeq(s, LastDot(s) + 1, Len(s))

S_pdf == <<"p","d","f">>
S_docx == <<"d","o","c","x">>
S_doc == <<"d","o","c">>
S_jpg == <<"j","p","g">>
S_jpeg == <<"j","p","e","g">>
S_png == <<"p","n","g">>

ALLOWED_EXTENSIONS_DOC == {S_pdf, S_docx, S_doc}
ALLOWED_EXTENSIONS_IMG == {S_jpg, S_jpeg, S_png}

allowed_file(filename) ==
  /\ HasDot(filename)
  /\ \/ lower(rsplit1(filename)) \in ALLOWED_EXTENSIONS_DOC
     \/ lower(rsplit1(filename)) \in ALLOWED_EXTENSIONS_IMG

\* only called where the name has a dot; process_file_logic models the IndexError
get_file_type(filename) ==
  IF lower(rsplit1(filename)) \in ALLOWED_EXTENSIONS_IMG THEN "image" ELSE "document"

(* werkzeug's secure_filename, for names without whitespace or path         *)
(* separators: characters outside [A-Za-z0-9_.-] are dropped (a character   *)
(* with no ASCII decomposition disappears), then leading and trailing "."   *)
(* and "_" are stripped.                                                    *)
SafeChars == Range(UpperChars) \cup Range(LowerChars) \cup Digits \cup {"_", ".", "-"}

RECURSIVE KeepSafe(_)
KeepSafe(s) ==
  IF s = <<>> THEN <<>>
  ELSE IF Head(s) \in SafeChars THEN <<Head(s)>> \o KeepSafe(Tail(s))
  ELSE KeepSafe(Tail(s))

RECURSIVE LStrip(_)
LStrip(s) ==
  IF s # <<>> /\ Head(s) \in {".", "_"} THEN LStrip(Tail(s)) ELSE s

RECURSIVE RStrip(_)
RStrip(s) ==
  IF s # <<>> /\ s[Len(s)] \in {".", "_"} THEN RStrip(SubSeq(s, 1, Len(s) - 1)) ELSE s

secure_filename(s) == RStrip(LStrip(KeepSafe(s)))

\* os.path.splitext(os.path.basename(input_path))[0] + '.pdf': the last dot
\* splits, unless every character before it is a dot
LeadingDots(s, i) == \A j \in 1..i : s[j] = "."

pdf_path_of(name) ==
  IF HasDot(name) /\ ~LeadingDots(name, LastDot(name))
    THEN SubSeq(name, 1, LastDot(name) - 1) \o <<".">> \o S_pdf
    ELSE name \o <<".">> \o S_pdf

lo_profile_dir == <<"l","o","_","p","r","o","f","i","l","e">>

(***************************************************************************)
(* JSON values, as response.json() returns them                             *)
(***************************************************************************)
JNull == [t |-> "null"]
JBool(b) == [t |-> "bool", b |-> b]
JInt(n) == [t |-> "int", n |-> n]
JStr(s) == [t |-> "str", s |-> s]
\* a list, by the strings it holds
JList(items) == [t |-> "list", items |-> items]
\* an object, by its key -> value function
JObj(f) == [t |-> "obj", f |-> f]
\* a body response.json() cannot decode
NotJson == [t |-> "notjson"]

NoKeys == [k \in {} |-> JNull]

\* Python truthiness of a JSON value
Truthy(v) ==
  CASE v.t = "null" -> FALSE
    [] v.t = "bool" -> v.b
    [] v.t = "int" -> v.n # 0
    [] v.t = "str" -> v.s # ""
    [] v.t = "list" -> v.items # {}
    [] v.t = "obj" -> DOMAIN v.f # {}
    [] OTHER -> FALSE

\* dict.get(key, default)
DictGet(obj, key, default) ==
  IF key \in DOMAIN obj.f THEN obj.f[key] ELSE default

DEFAULT_BNW == 500
DEFAULT_COLOR == 1000
DEFAULT_FULL_COLOR == 1500

DefaultPrices ==
  [bnw |-> JInt(DEFAULT_BNW), color |-> JInt(DEFAULT_COLOR),
   full_color |-> JInt(DEFAULT_FULL_COLOR)]

(* The answer of requests.get(PRICING_API_URL, timeout=5): kind "timeout"   *)
(* or "refused" (requests raises), or "http" with a status and a body.      *)
HttpReply(status, body) == [kind |-> "http", status |-> status, body |-> body]
NoReply(kind) == [kind |-> kind, status |-> 0, body |-> NotJson]

\* faulty variant: full_color is read from the payload too
OverridePrices_AllKeys(p, api_prices) ==
  [p EXCEPT !.bnw = DictGet(api_prices, "bnw", p.bnw),
            !.color = DictGet(api_prices, "color", p.color),
            !.full_color = DictGet(api_prices, "full_color", p.full_color)]

\* lines 63-64: only "bnw" and "color" are read from the payload
OverridePrices(p, api_prices) ==
  [p EXCEPT !.bnw = DictGet(api_prices, "bnw", p.bnw),
            !.color = DictGet(api_prices, "color", p.color)]

Returned(p) == [raised |-> FALSE, prices |-> p]
Raised(p) == [raised |-> TRUE, prices |-> p]

\* the try body of lines 58-64: [raised, prices], prices the dict as it is
\* when the body ends or raises
fetch_try(r, p) ==
  IF r.kind # "http" THEN Raised(p)                    \* requests.get raises
  ELSE IF r.status # 200 THEN Returned(p)
  ELSE IF r.body.t = "notjson" THEN Raised(p)          \* response.json() raises
  ELSE IF r.body.t # "obj" THEN Raised(p)              \* no .get: AttributeError
  ELSE LET data == r.body IN
    IF ~Truthy(DictGet(data, "success", JNull)) THEN Returned(p)
    ELSE IF "data" \notin DOMAIN data.f THEN Returned(p)
    ELSE LET d == data.f["data"] IN
      CASE d.t = "obj" ->
             IF "prices" \notin DOMAIN d.f THEN Returned(p)
             ELSE LET api_prices == d.f["prices"] IN
               IF api_prices.t # "obj" THEN Raised(p)  \* no .get: AttributeError
               ELSE Returned(OverridePrices(p, api_prices))
        \* 'prices' in a list: membership, and then d['prices'] raises
        [] d.t = "list" -> IF "prices" \in d.items THEN Raised(p) ELSE Returned(p)
        \* 'prices' in a number, a boolean or null raises
        [] OTHER -> Raised(p)

\* faulty variant: no except around the body
fetch_pricing_config_NoExcept(r) == fetch_try(r, DefaultPrices)

\* lines 45-69: the except of line 65 swallows whatever the body raises
fetch_pricing_config(r) ==
  LET body == fetch_try(r, DefaultPrices)
  IN  Returned(body.prices)

(***************************************************************************)
(* Pricing of one percentage (in hundredths)                                *)
(***************************************************************************)
\* faulty variant: 50 falls in the full_color bucket
calculate_price_Exclusive50(percentage, price_config) ==
  IF percentage <= 0 THEN <<"black_and_white", price_config.bnw>>
  ELSE IF percentage < 5000 THEN <<"color", price_config.color>>
  ELSE <<"full_color", price_config.full_color>>

calculate_price_for_percentage(percentage, price_config) ==
  IF percentage <= 0 THEN <<"black_and_white", price_config.bnw>>
  ELSE IF percentage <= 5000 THEN <<"color", price_config.color>>
  ELSE <<"full_color", price_config.full_color>>

(***************************************************************************)
(* Colour analysis.  An image array is [h, w, ch, px]: its shape and, for   *)
(* a 3-channel array, its h*w pixels <<b, g, r>> in row order.              *)
(***************************************************************************)
SATURATION_THRESHOLD == 20

Max3(a, b, c) == IF a >= b /\ a >= c THEN a ELSE IF b >= c THEN b ELSE c
Min3(a, b, c) == IF a <= b /\ a <= c THEN a ELSE IF b <= c THEN b ELSE c

\* the S channel of cv2.COLOR_BGR2HSV on 8-bit data: 255 * (V - min) / V,
\* rounded to the nearest integer, 0 where V = 0
Saturation(px) ==
  LET v == Max3(px[1], px[2], px[3])
      diff == v - Min3(px[1], px[2], px[3])
  IN  IF v = 0 THEN 0 ELSE (2 * 255 * diff + v) \div (2 * v)

\* faulty variant: a pixel at the threshold counts as coloured
RECURSIVE count_colored_AtThreshold(_)
count_colored_AtThreshold(px) ==
  IF px = <<>> THEN 0
  ELSE (IF Saturation(Head(px)) >= SATURATION_THRESHOLD THEN 1 ELSE 0)
       + count_colored_AtThreshold(Tail(px))

\* np.count_nonzero(saturation_channel > SATURATION_THRESHOLD)
RECURSIVE count_colored(_)
count_colored(px) ==
  IF px = <<>> THEN 0
  ELSE (IF Saturation(Head(px)) > SATURATION_THRESHOLD THEN 1 ELSE 0)
       + count_colored(Tail(px))

\* round((c / t) * 100, 2) in hundredths: the nearest hundredth, a tie to even
Round2(c, t) ==
  LET q == (10000 * c) \div t
      r == (10000 * c) % t
  IN  IF 2 * r > t THEN q + 1
      ELSE IF 2 * r < t THEN q
      ELSE IF q % 2 = 0 THEN q ELSE q + 1

\* cv2.cvtColor(img, COLOR_BGR2HSV) raises on an array that is empty or has
\* not 3 channels
cvtColor_raises(img) == img.ch # 3 \/ img.h * img.w = 0

Value(v) == [raised |-> FALSE, value |-> v]
Raises == [raised |-> TRUE, value |-> 0]

\* the try body of lines 85-99
analyze_try(img_array) ==
  IF cvtColor_raises(img_array) THEN Raises
  ELSE LET colored_pixels == count_colored(img_array.px)
           total_pixels == img_array.h * img_array.w
       IN  IF total_pixels = 0 THEN Value(0)
           ELSE Value(Round2(colored_pixels, total_pixels))

\* lines 79-102: the except of line 100 returns 0.0
analyze_image_array(img_array) ==
  LET body == analyze_try(img_array)
  IN  IF body.raised THEN Value(0) ELSE body

(***************************************************************************)
(* One uploaded file and what its processing meets: the raw file name, and  *)
(* the outcomes of the calls process_file_logic makes on it.                *)
(*   which  shutil.which finds a LibreOffice command                        *)
(*   conv   the LibreOffice run: [exit0, wrote] (exit status 0, and whether *)
(*          <base>.pdf was written to the output directory)                 *)
(*   img    cv2.imread's result: an image array, or NoImage for None        *)
(*   open   fitz.open succeeds                                              *)
(*   pages  per page: [render, n, h, w, px], render FALSE when get_pixmap   *)
(*          or the reshape raises, px the pixmap's samples (n values each)  *)
(***************************************************************************)
NoImage == [h |-> 0, w |-> 0, ch |-> 0, px |-> <<>>]

\* lines 219-224: the pixmap as a BGR array
RECURSIVE gray_to_bgr(_)
gray_to_bgr(px) ==
  IF px = <<>> THEN <<>>
  ELSE <<<<Head(px)[1], Head(px)[1], Head(px)[1]>>>> \o gray_to_bgr(Tail(px))

RECURSIVE rgb_to_bgr(_)
rgb_to_bgr(px) ==
  IF px = <<>> THEN <<>>
  ELSE <<<<Head(px)[3], Head(px)[2], Head(px)[1]>>>> \o rgb_to_bgr(Tail(px))

pixmap_to_array(pix) ==
  IF pix.n < 3
    THEN [h |-> pix.h, w |-> pix.w, ch |-> 3, px |-> gray_to_bgr(pix.px)]
    ELSE [h |-> pix.h, w |-> pix.w, ch |-> 3, px |-> rgb_to_bgr(pix.px)]

\* the result_entry of lines 159-166
InitialEntry(filename, file_type) ==
  [filename |-> filename, type |-> file_type, total_pages |-> 0,
   total_price |-> JInt(0), total_price_bnw |-> JInt(0), colors |-> <<>>]

\* the dict appended at lines 196-202 and 232-238
PageEntry(page, percentage, price_config) ==
  LET cp == calculate_price_for_percentage(percentage, price_config)
  IN  [page |-> page, color |-> cp[1], price |-> cp[2],
       price_bnw |-> price_config.bnw, percentage |-> percentage]

\* int += value raises TypeError unless value is a number
IsNumber(v) == v.t = "int"

(* The loop of lines 214-238 from page k on: [raised, colors, total,       *)
(* total_bnw].  A page that fails to render, a call that raises, or a price *)
(* that cannot be added, raises before the page's entry is appended.        *)
RECURSIVE pdf_loop(_, _, _, _, _, _)
pdf_loop(pages, k, colors, total, total_bnw, price_config) ==
  IF k > Len(pages)
    THEN [raised |-> FALSE, colors |-> colors, total |-> total, total_bnw |-> total_bnw]
  ELSE IF ~pages[k].render
    THEN [raised |-> TRUE, colors |-> colors, total |-> total, total_bnw |-> total_bnw]
  ELSE LET a == analyze_image_array(pixmap_to_array(pages[k]))
           e == PageEntry(k, a.value, price_config)
       IN  IF a.raised \/ ~IsNumber(e.price) \/ ~IsNumber(e.price_bnw)
             THEN [raised |-> TRUE, colors |-> colors, total |-> total,
                   total_bnw |-> total_bnw]
             ELSE pdf_loop(pages, k + 1, Append(colors, e), total + e.price.n,
                           total_bnw + e.price_bnw.n, price_config)

\* faulty variant: the page count is set before the image is checked
process_image_CountFirst(entry, up, price_config) ==
  IF up.img = NoImage THEN [entry EXCEPT !.total_pages = 1]
  ELSE LET a == analyze_image_array(up.img)
           e == PageEntry(1, a.value, price_config)
       IN  [entry EXCEPT !.total_pages = 1, !.total_price = e.price,
                         !.total_price_bnw = price_config.bnw,
                         !.colors = Append(@, e)]

\* lines 183-202
process_image(entry, up, price_config) ==
  IF up.img = NoImage THEN entry                        \* ValueError, caught at 244
  ELSE LET a == analyze_image_array(up.img)
           e == PageEntry(1, a.value, price_config)
       IN  IF a.raised THEN [entry EXCEPT !.total_pages = 1]
           ELSE [entry EXCEPT !.total_pages = 1, !.total_price = e.price,
                              !.total_price_bnw = price_config.bnw,
                              !.colors = Append(@, e)]

\* lines 205-242
process_pdf(entry, up, price_config) ==
  IF ~up.open THEN entry                                \* fitz.open raised
  ELSE LET r == pdf_loop(up.pages, 1, <<>>, 0, 0, price_config)
       IN  IF r.raised
             THEN [entry EXCEPT !.total_pages = Len(up.pages), !.colors = r.colors]
             ELSE [entry EXCEPT !.total_pages = Len(up.pages), !.colors = r.colors,
                                !.total_price = JInt(r.total),
                                !.total_price_bnw = JInt(r.total_bnw)]

(* convert_doc_to_pdf on the saved file `name`, in a directory holding     *)
(* `files`: [raised, path, files].  The profile directory is removed in the *)
(* finally of lines 152-155.                                                *)
convert_doc_to_pdf(name, up, files) ==
  IF ~up.which THEN [raised |-> TRUE, path |-> <<>>, files |-> files]
  ELSE LET pdf_path == pdf_path_of(name)
           ran == (files \cup {lo_profile_dir})
                    \cup (IF up.conv.wrote THEN {pdf_path} ELSE {})
           after == ran \ {lo_profile_dir}
       IN  IF ~up.conv.exit0
             THEN [raised |-> TRUE, path |-> <<>>, files |-> after]
           ELSE IF pdf_path \in ran
             THEN [raised |-> FALSE, path |-> pdf_path, files |-> after]
           ELSE [raised |-> TRUE, path |-> <<>>, files |-> after]

\* lines 246-252: the generated PDF is removed when temp_pdf_created
cleanup_pdf(temp_pdf_created, processing_path, files) ==
  IF temp_pdf_created /\ processing_path \in files
    THEN files \ {processing_path}
    ELSE files

(* process_file_logic on the saved file `filename`: [raised, entry, files]. *)
(* raised: the IndexError of filename.rsplit('.', 1)[1] at lines 40 and     *)
(* 168, which are outside the try.                                          *)
process_file_logic(filename, up, price_config, files) ==
  IF ~HasDot(filename)
    THEN [raised |-> TRUE, entry |-> InitialEntry(filename, "document"), files |-> files]
  ELSE LET file_type == get_file_type(filename)
           result_entry == InitialEntry(filename, file_type)
           ext == lower(rsplit1(filename))
       IN  IF ext \in {S_doc, S_docx}
             THEN LET c == convert_doc_to_pdf(filename, up, files)
                  IN  IF c.raised
                        THEN [raised |-> FALSE, entry |-> result_entry, files |-> c.files]
                        ELSE [raised |-> FALSE,
                              entry |-> process_pdf(result_entry, up, price_config),
                              files |-> cleanup_pdf(TRUE, c.path, c.files)]
           ELSE IF file_type = "image"
             THEN [raised |-> FALSE,
                   entry |-> process_image(result_entry, up, price_config),
                   files |-> cleanup_pdf(FALSE, filename, files)]
           ELSE [raised |-> FALSE,
                 entry |-> process_pdf(result_entry, up, price_config),
                 files |-> cleanup_pdf(FALSE, filename, files)]

(***************************************************************************)
(* Inputs                                                                   *)
(***************************************************************************)
\* pixels, <<b, g, r>>; Pale20 has saturation 20 and Pale21 saturation 21
White == <<255, 255, 255>>
Black == <<0, 0, 0>>
Gray == <<128, 128, 128>>
Pale20 == <<235, 235, 255>>
Pale21 == <<234, 234, 255>>
Red == <<0, 0, 255>>
Pixels == {White, Black, Gray, Pale20, Pale21, Red}

Img(h, w, px) == [h |-> h, w |-> w, ch |-> 3, px |-> px]

\* every array of at most MaxPixels pixels: 3-channel ones of every shape
\* (zero-area ones included), and arrays of 1 and 2 channels
Images ==
  UNION {UNION {IF h * w <= MaxPixels
                  THEN {Img(h, w, px) : px \in [1..(h * w) -> Pixels]}
                         \cup {[h |-> h, w |-> w, ch |-> c, px |-> <<>>] : c \in {1, 2}}
                  ELSE {}
                : w \in 0..MaxPixels}
         : h \in 0..MaxPixels}

\* pixmaps, samples <<r, g, b>> (n = 3) or <<gray>> (n = 1)
PageFail == [render |-> FALSE, n |-> 3, h |-> 0, w |-> 0, px |-> <<>>]
Page(n, h, w, px) == [render |-> TRUE, n |-> n, h |-> h, w |-> w, px |-> px]
WhitePage == Page(3, 1, 2, <<White, White>>)
RedPage == Page(3, 1, 2, <<<<255, 0, 0>>, <<255, 0, 0>>>>)
HalfPage == Page(3, 1, 2, <<<<255, 0, 0>>, White>>)
GrayPage == Page(1, 1, 2, <<<<128>>, <<40>>>>)

Ran(exit0, wrote) == [exit0 |-> exit0, wrote |-> wrote]

ImageUpload(name, img) ==
  [name |-> name, which |-> TRUE, conv |-> Ran(TRUE, TRUE), img |-> img,
   open |-> TRUE, pages |-> <<>>]
PdfUpload(name, open, pages) ==
  [name |-> name, which |-> TRUE, conv |-> Ran(TRUE, TRUE), img |-> NoImage,
   open |-> open, pages |-> pages]
DocUpload(name, which, conv, open, pages) ==
  [name |-> name, which |-> which, conv |-> conv, img |-> NoImage,
   open |-> open, pages |-> pages]

N_a_png == <<"a", ".", "p", "n", "g">>
N_b_JPG == <<"b", ".", "J", "P", "G">>
N_c_pdf == <<"c", ".", "p", "d", "f">>
N_d_docx == <<"d", ".", "d", "o", "c", "x">>
N_e_doc == <<"e", ".", "d", "o", "c">>
N_n_txt == <<"n", ".", "t", "x", "t">>
\* ".pdf", and a name whose only character before ".pdf" is not ASCII
N_dot_pdf == <<".", "p", "d", "f">>
N_cjk_pdf == <<"U+6587", ".", "p", "d", "f">>

Uploads ==
  { ImageUpload(N_a_png, NoImage),
    ImageUpload(N_a_png, Img(1, 1, <<White>>)),
    ImageUpload(N_b_JPG, Img(1, 2, <<Red, White>>)),
    ImageUpload(N_a_png, Img(1, 3, <<Red, Red, Gray>>)),
    PdfUpload(N_c_pdf, FALSE, <<>>),
    PdfUpload(N_c_pdf, TRUE, <<WhitePage, RedPage>>),
    PdfUpload(N_c_pdf, TRUE, <<HalfPage, PageFail>>),
    PdfUpload(N_c_pdf, TRUE, <<GrayPage>>),
    DocUpload(N_d_docx, FALSE, Ran(TRUE, TRUE), TRUE, <<WhitePage>>),
    DocUpload(N_d_docx, TRUE, Ran(FALSE, FALSE), TRUE, <<WhitePage>>),
    DocUpload(N_d_docx, TRUE, Ran(FALSE, TRUE), TRUE, <<WhitePage>>),
    DocUpload(N_d_docx, TRUE, Ran(TRUE, FALSE), TRUE, <<WhitePage>>),
    DocUpload(N_e_doc, TRUE, Ran(TRUE, TRUE), FALSE, <<>>),
    DocUpload(N_e_doc, TRUE, Ran(TRUE, TRUE), TRUE, <<HalfPage>>),
    DocUpload(N_d_docx, TRUE, Ran(TRUE, TRUE), TRUE, <<WhitePage, PageFail>>),
    PdfUpload(N_dot_pdf, TRUE, <<WhitePage>>),
    PdfUpload(N_cjk_pdf, TRUE, <<WhitePage>>),
    PdfUpload(N_n_txt, TRUE, <<WhitePage>>) }

\* payloads of the pricing source
Obj1(k, v) == JObj(k :> v)
Obj2(k1, v1, k2, v2) == JObj((k1 :> v1) @@ (k2 :> v2))
Obj3(k1, v1, k2, v2, k3, v3) == JObj((k1 :> v1) @@ (k2 :> v2) @@ (k3 :> v3))

Envelope(success, api_prices) ==
  Obj2("success", success, "data", Obj1("prices", api_prices))

GoodPrices == Obj2("bnw", JInt(700), "color", JInt(1200))

\* 200 answers with success truthy and data.prices an object
OkBodies ==
  { Envelope(JBool(TRUE), GoodPrices),
    Envelope(JStr("yes"), GoodPrices),
    Envelope(JBool(TRUE), Obj1("bnw", JInt(700))),
    Envelope(JBool(TRUE), JObj(NoKeys)),
    Envelope(JBool(TRUE), Obj3("bnw", JInt(700), "color", JInt(1200),
                               "full_color", JInt(9999))),
    Envelope(JBool(TRUE), Obj2("bnw", JInt(-5), "color", JInt(1200))),
    Envelope(JBool(TRUE), Obj1("color", JInt(0))),
    Envelope(JBool(TRUE), Obj1("bnw", JStr("cheap"))),
    Envelope(JBool(TRUE), Obj1("color", JNull)) }

\* 200 answers that are not the expected shape
BadBodies ==
  { NotJson,
    JList({}),
    Envelope(JBool(FALSE), GoodPrices),
    Envelope(JInt(0), GoodPrices),
    Obj1("data", Obj1("prices", GoodPrices)),
    Obj1("success", JBool(TRUE)),
    Obj2("success", JBool(TRUE), "data", JNull),
    Obj2("success", JBool(TRUE), "data", JList({"prices"})),
    Obj2("success", JBool(TRUE), "data", JObj(NoKeys)),
    Envelope(JBool(TRUE), JList({"bnw"})),
    Envelope(JBool(TRUE), JNull) }

Replies ==
  {NoReply("timeout"), NoReply("refused"),
   HttpReply(500, Envelope(JBool(TRUE), GoodPrices)),
   HttpReply(404, NotJson)}
    \cup {HttpReply(200, b) : b \in OkBodies \cup BadBodies}

(***************************************************************************)
(* detect_colors, one request                                               *)
(***************************************************************************)
NoFile == [filename |-> <<>>, up |-> PdfUpload(<<>>, FALSE, <<>>)]
NoCall == [kind |-> "none", status |-> 0, body |-> NotJson]
NoPrice == <<"none", JNull>>

BatchInit ==
  /\ pc = "start"
  /\ reply = NoCall
  /\ prices = DefaultPrices
  /\ fetches = 0
  /\ handled = 0
  /\ accepted = 0
  /\ cur = NoFile
  /\ response_data = <<>>
  /\ fs = {}
  /\ dir_exists = FALSE
  /\ response = "none"

PureIdle ==
  /\ img_in = NoImage
  /\ pct_out = -1
  /\ p_in = 0
  /\ table_in = DefaultPrices
  /\ price_out = NoPrice

Init == BatchInit /\ PureIdle

\* lines 258-263: no 'files' part, or an empty list
BadRequest ==
  /\ pc = "start"
  /\ pc' = "done"
  /\ response' = "400"
  /\ UNCHANGED <<reply, prices, fetches, handled, accepted, cur, response_data,
                 fs, dir_exists>>
  /\ UNCHANGED <<analyzeVars, priceVars>>

\* lines 265-270: the price table, then the request's temp directory
Fetch ==
  /\ pc = "start"
  /\ \E r \in Replies :
       LET got == fetch_pricing_config(r)
       IN  /\ reply' = r
           /\ prices' = got.prices
           \* an exception at line 265 is outside the try of line 272
           /\ pc' = IF got.raised THEN "crashed" ELSE "loop"
           /\ dir_exists' = ~got.raised
  /\ fetches' = fetches + 1
  /\ fs' = {}
  /\ UNCHANGED <<handled, accepted, cur, response_data, response>>
  /\ UNCHANGED <<analyzeVars, priceVars>>

\* lines 273-280: the next uploaded file, up to the return of process_file_logic
HandleFile ==
  /\ pc = "loop"
  /\ handled < MaxFiles
  /\ handled' = handled + 1
  /\ \E up \in Uploads :
       IF ~allowed_file(up.name)
         THEN UNCHANGED <<pc, accepted, cur, response_data, fs>>
         ELSE LET filename == secure_filename(up.name)
                  r == process_file_logic(filename, up, prices, fs \cup {filename})
              IN  /\ accepted' = accepted + 1
                  /\ cur' = [filename |-> filename, up |-> up]
                  /\ fs' = r.files
                  /\ IF r.raised
                       THEN pc' = "raised" /\ UNCHANGED response_data
                       ELSE pc' = "processed"
                            /\ response_data' = Append(response_data, r.entry)
  /\ UNCHANGED <<reply, prices, fetches, dir_exists, response>>
  /\ UNCHANGED <<analyzeVars, priceVars>>

\* faulty variant: the table is fetched again after each file
RemoveSaved_Refetch ==
  /\ pc = "processed"
  /\ fs' = fs \ {cur.filename}
  /\ pc' = "loop"
  /\ \E r \in Replies : prices' = fetch_pricing_config(r).prices
  /\ fetches' = fetches + 1
  /\ UNCHANGED <<reply, handled, accepted, cur, response_data, dir_exists, response>>
  /\ UNCHANGED <<analyzeVars, priceVars>>

\* lines 282-286: the saved upload is removed
RemoveSaved ==
  /\ pc = "processed"
  /\ fs' = fs \ {cur.filename}
  /\ pc' = "loop"
  /\ UNCHANGED <<reply, prices, fetches, handled, accepted, cur, response_data,
                 dir_exists, response>>
  /\ UNCHANGED <<analyzeVars, priceVars>>

\* lines 288-291 and the finally of 296-297; the list of files is not empty
Respond ==
  /\ pc = "loop"
  /\ handled >= 1
  /\ response' = "true"
  /\ fs' = {}
  /\ dir_exists' = FALSE
  /\ pc' = "done"
  /\ UNCHANGED <<reply, prices, fetches, handled, accepted, cur, response_data>>
  /\ UNCHANGED <<analyzeVars, priceVars>>

\* lines 293-297: an exception in the loop
Fail500 ==
  /\ pc = "raised"
  /\ response' = "false"
  /\ fs' = {}
  /\ dir_exists' = FALSE
  /\ pc' = "done"
  /\ UNCHANGED <<reply, prices, fetches, handled, accepted, cur, response_data>>
  /\ UNCHANGED <<analyzeVars, priceVars>>

Next == BadRequest \/ Fetch \/ HandleFile \/ RemoveSaved \/ Respond \/ Fail500

Spec == Init /\ [][Next]_vars

(***************************************************************************)
(* analyze_image_array on every small array                                 *)
(***************************************************************************)
InitAnalyze ==
  /\ BatchInit
  /\ img_in \in Images
  /\ pct_out = -1
  /\ p_in = 0
  /\ table_in = DefaultPrices
  /\ price_out = NoPrice

Analyze ==
  /\ pct_out = -1
  /\ LET a == analyze_image_array(img_in)
     IN  /\ pct_out' = IF a.raised THEN -2 ELSE a.value
         /\ price_out' = IF a.raised THEN NoPrice
                          ELSE calculate_price_for_percentage(a.value, table_in)
  /\ UNCHANGED <<img_in, p_in, table_in>>
  /\ UNCHANGED batchVars

NextAnalyze == Analyze

SpecAnalyze == InitAnalyze /\ [][NextAnalyze]_vars

(***************************************************************************)
(* calculate_price_for_percentage on every percentage and table             *)
(***************************************************************************)
Tables == {fetch_pricing_config(r).prices : r \in Replies}

InitPrice ==
  /\ BatchInit
  /\ img_in = NoImage
  /\ pct_out = -1
  /\ p_in \in 0..10000
  /\ table_in \in Tables
  /\ price_out = NoPrice

Resolve ==
  /\ price_out = NoPrice
  /\ price_out' = calculate_price_for_percentage(p_in, table_in)
  /\ UNCHANGED <<img_in, pct_out, p_in, table_in>>
  /\ UNCHANGED batchVars

NextPrice == Resolve

SpecPrice == InitPrice /\ [][NextPrice]_vars

(***************************************************************************)
(* Properties                                                               *)
(***************************************************************************)
Last(q) == q[Len(q)]

IsInt(v) == v.t = "int"
IntegerTable(tb) == IsInt(tb.bnw) /\ IsInt(tb.color) /\ IsInt(tb.full_color)

RECURSIVE SumPrice(_)
SumPrice(colors) ==
  IF colors = <<>> THEN 0 ELSE Head(colors).price.n + SumPrice(Tail(colors))

RECURSIVE SumPriceBnw(_)
SumPriceBnw(colors) ==
  IF colors = <<>> THEN 0 ELSE Head(colors).price_bnw.n + SumPriceBnw(Tail(colors))

EntryConsistent(e) ==
  /\ IsInt(e.total_price) /\ IsInt(e.total_price_bnw)
  /\ \A i \in 1..Len(e.colors) : IsInt(e.colors[i].price) /\ IsInt(e.colors[i].price_bnw)
  /\ e.total_price.n = SumPrice(e.colors)
  /\ e.total_price_bnw.n = SumPriceBnw(e.colors)
  /\ e.total_pages = Len(e.colors)

(* C1: every result of process_file_logic has total_price = the sum of its *)
(* pages' prices, total_price_bnw = the sum of their price_bnw, and         *)
(* total_pages = the number of its colors entries (the degraded result is   *)
(* the case of no entries).  Stated for tables of integers.                 *)
C1_TotalsMatchPages ==
  IntegerTable(prices) =>
    \A i \in 1..Len(response_data) : EntryConsistent(response_data[i])

(* C2: no file makes process_file_logic raise, and a request that reached   *)
(* the loop answers success with one entry per accepted file.               *)
C2_BatchNeverAborts ==
  /\ pc # "raised"
  /\ (pc = "done" /\ fetches = 1) =>
       (response = "true" /\ Len(response_data) = accepted)

\* the failures of C3, for the file c saved in a directory holding `files`
FailsBeforeAnyPage(c, files) ==
  LET ext == lower(rsplit1(c.filename))
  IN  IF ext \in {S_doc, S_docx}
        THEN \/ ~c.up.which
             \/ ~c.up.conv.exit0
             \/ (~c.up.conv.wrote /\ pdf_path_of(c.filename) \notin files)
             \/ ~c.up.open
      ELSE IF ext \in {S_jpg, S_jpeg, S_png} THEN c.up.img = NoImage
      ELSE ~c.up.open

DegradedResult(c) ==
  [filename |-> c.filename,
   type |-> IF lower(rsplit1(c.filename)) \in {S_jpg, S_jpeg, S_png}
              THEN "image" ELSE "document",
   total_pages |-> 0, total_price |-> JInt(0), total_price_bnw |-> JInt(0),
   colors |-> <<>>]

(* C3: a file that fails before any page is produced (no converter, the     *)
(* conversion exits non-zero, the converted PDF is missing, the image does  *)
(* not decode, the PDF does not open) gets the degraded result: no pages,   *)
(* zero totals, no colors, its filename and type set.                       *)
C3_DegradedOnEarlyFailure ==
  [][(pc = "loop" /\ pc' = "processed" /\ FailsBeforeAnyPage(cur', fs))
       => Last(response_data') = DegradedResult(cur')]_vars

C3_Witness ==
  /\ pc = "processed"
  /\ cur.filename = N_d_docx
  /\ cur.up.which /\ ~cur.up.conv.exit0
  /\ Last(response_data).total_pages = 0
  /\ Last(response_data).colors = <<>>

(* C4: the price of a percentage p in [0, 100] is a step function with     *)
(* three buckets: p <= 0 black_and_white at table.bnw, 0 < p <= 50 color at *)
(* table.color, p > 50 full_color at table.full_color.                      *)
C4_ThreeBuckets ==
  price_out[1] # "none" =>
    /\ p_in <= 0 => price_out = <<"black_and_white", table_in.bnw>>
    /\ (0 < p_in /\ p_in <= 5000) => price_out = <<"color", table_in.color>>
    /\ p_in > 5000 => price_out = <<"full_color", table_in.full_color>>
    /\ p_in = 0 => price_out[1] = "black_and_white"
    /\ p_in = 5000 => price_out[1] = "color"
    /\ p_in \in {5001, 10000} => price_out[1] = "full_color"

C4_Witness ==
  /\ p_in = 5000
  /\ price_out[1] = "color"
  /\ table_in.color = JInt(1200)

\* a 200 answer of the expected shape, up to the prices object
WellFormed(b) ==
  /\ b.t = "obj"
  /\ "success" \in DOMAIN b.f /\ Truthy(b.f["success"])
  /\ "data" \in DOMAIN b.f
  /\ b.f["data"].t = "obj"
  /\ "prices" \in DOMAIN b.f["data"].f
  /\ b.f["data"].f["prices"].t = "obj"

FetchFailed(r) ==
  \/ r.kind \in {"timeout", "refused"}
  \/ r.kind = "http" /\ (r.status # 200 \/ ~WellFormed(r.body))

(* C5: when the pricing fetch fails (timeout, unreachable, non-200, a body  *)
(* that is not the expected object, success falsy, data or data.prices      *)
(* missing), fetch_pricing_config raises nothing and returns bnw=500,       *)
(* color=1000, full_color=1500, and the request goes on to its files.       *)
C5_DefaultsOnFailure ==
  (fetches = 1 /\ FetchFailed(reply)) =>
    /\ pc # "crashed"
    /\ prices = [bnw |-> JInt(500), color |-> JInt(1000), full_color |-> JInt(1500)]
    /\ dir_exists \/ pc = "done"

C5_Witness ==
  /\ reply.kind = "timeout"
  /\ pc = "processed"
  /\ Last(response_data).total_price = JInt(1500)

PayloadPrices(r) == r.body.f["data"].f["prices"]

(* C6: the table's full_color is always 1500; a well-formed payload sets    *)
(* bnw and color from its own keys and nothing else, whatever other keys it *)
(* holds.                                                                   *)
C6_FullColorFixed ==
  /\ prices.full_color = JInt(1500)
  /\ (fetches = 1 /\ ~FetchFailed(reply)) =>
       prices = [bnw |-> DictGet(PayloadPrices(reply), "bnw", JInt(500)),
                 color |-> DictGet(PayloadPrices(reply), "color", JInt(1000)),
                 full_color |-> JInt(1500)]

C6_Witness ==
  /\ fetches = 1
  /\ ~FetchFailed(reply)
  /\ "full_color" \in DOMAIN PayloadPrices(reply).f
  /\ prices.bnw = JInt(700)
  /\ pc = "loop"

PositiveInt(v) == v.t = "int" /\ v.n > 0
NonNegativeInt(v) == v.t = "int" /\ v.n >= 0

(* C7: the table of a request is three positive integers, and every page    *)
(* price and document total in a result is a non-negative integer.          *)
C7_PositiveIntegerPrices ==
  /\ PositiveInt(prices.bnw) /\ PositiveInt(prices.color)
  /\ PositiveInt(prices.full_color)
  /\ \A i \in 1..Len(response_data) :
       /\ NonNegativeInt(response_data[i].total_price)
       /\ NonNegativeInt(response_data[i].total_price_bnw)
       /\ \A k \in 1..Len(response_data[i].colors) :
            /\ NonNegativeInt(response_data[i].colors[k].price)
            /\ NonNegativeInt(response_data[i].colors[k].price_bnw)

Abs(x) == IF x < 0 THEN -x ELSE x

C9_NoLeftovers ==
  /\ (pc = "processed" /\ lower(rsplit1(cur.filename)) \in {S_doc, S_docx}) =>
       (lo_profile_dir \notin fs /\ pdf_path_of(cur.filename) \notin fs)
  /\ (pc = "done" /\ fetches = 1) => (~dir_exists /\ fs = {})

PricedFrom(e, tb) ==
  \A k \in 1..Len(e.colors) :
    LET c == e.colors[k]
    IN  /\ c.price_bnw = tb.bnw
        /\ c.price = (CASE c.color = "black_and_white" -> tb.bnw
                        [] c.color = "color" -> tb.color
                        [] c.color = "full_color" -> tb.full_color)

(* C10: the table is fetched once, before any file is handled, and never    *)
(* again; it does not change afterwards, and every page of every result of  *)
(* the request is priced from it.                                           *)
C10_OneTablePerBatch ==
  /\ [](/\ fetches <= 1
        /\ handled > 0 => fetches = 1
        /\ \A i \in 1..Len(response_data) : PricedFrom(response_data[i], prices))
  /\ [][/\ fetches' # fetches => (fetches = 0 /\ handled = 0)
        /\ prices' # prices => fetches' # fetches]_vars

C10_Witness ==
  /\ Len(response_data) = 2
  /\ response_data[1].colors = <<>>
  /\ Len(response_data[2].colors) = 2
  /\ prices.bnw = JInt(700)
  /\ prices.color = JInt(1200)

=============================================================================
